---- MODULE Spec2Model ----
(***************************************************************************)
(* Model of the MODS model lifecycle (indigo-dc/mods):                     *)
(*   src/mods/models/mods_model.py   class mods_model (artifact)           *)
(*   src/mods/models/api_v2.py       load_model / train (API layer)        *)
(*   src/mods/config.py              process-wide defaults of module cfg   *)
(*                                                                         *)
(* Frames and matrices are symbolic: a row is named by the time step it    *)
(* stands for, so that slicing, differencing, padding, windowing and the   *)
(* inverse chain are computed on row identities exactly as the code        *)
(* computes them on values.  Times and positions are 1-based.              *)
(***************************************************************************)
EXTENDS Integers, Sequences, FiniteSets, TLC

VARIABLES
  config,       \* self.config         (dict: sections 'model', 'scaler', ...)
  model,        \* self.model          (keras predictor or None)
  scaler,       \* self.__scaler       (MinMaxScaler or None)
  sample_data,  \* self.sample_data    (frame or None)
  metrics,      \* self.__metrics      (dict)
  fs,           \* the file system: archive path -> archive
  env,          \* the process: GPU availability, the cfg defaults, the Keras session
  last,         \* what the last operation did and returned
  saved,        \* history: per archive path, the artifact as save() saw it
  calls         \* history: number of calls made so far

vars == <<config, model, scaler, sample_data, metrics, fs, env, last, saved, calls>>

----------------------------------------------------------------------------
(* Bounds of the model *)

MaxLen == 4        \* frames have 0..MaxLen rows (plus the 20-row scenario)
MaxWidth == 2      \* frames have 1..MaxWidth columns
MaxSeqLen == 2     \* explicit sequence_len values 1..MaxSeqLen
MaxSteps == 2      \* explicit steps_ahead values 1..MaxSteps
MaxCalls == 2      \* calls in the hyperparameter-merge specification
MaxOps == 3        \* calls in the container specifications

(* Process-wide defaults, src/mods/config.py *)

cfg_model_delta == TRUE
cfg_interpolate == TRUE
cfg_sequence_len == 6
cfg_steps_ahead == 1
cfg_model_types == <<"CuDNNLSTM", "CuDNNGRU", "Conv1D", "MLP", "BidirectLSTM", "seq2seqLSTM">>
cfg_model_type == cfg_model_types[1]
cfg_num_epochs == 50
cfg_epochs_patience == 10
cfg_batch_size == 1
cfg_batch_size_test == 1
cfg_blocks == 6

----------------------------------------------------------------------------
(* Python values *)

None == [kind |-> "None"]                 \* Python's None
Absent == [kind |-> "absent"]             \* a keyword argument not supplied
Val(v) == [kind |-> "val", v |-> v]       \* a supplied, non-None argument

Min(a, b) == IF a < b THEN a ELSE b
Max(a, b) == IF a > b THEN a ELSE b

\* seq[lo:hi] of Python on a 1-based sequence: positions lo+1 .. hi
Slice(seq, lo, hi) == SubSeq(seq, lo + 1, hi)

\* d[k] = v on a dict
DictSet(d, k, v) == [x \in DOMAIN d \cup {k} |-> IF x = k THEN v ELSE d[x]]

EmptyDict == [x \in {} |-> 0]

NotReached == 0 - 1  \* the operation ended before windowing

----------------------------------------------------------------------------
(* Frames and matrices *)

\* A frame of the caller: len rows (times 1..len) of w columns.  marks tells
\* the rows that are not plain observations: "none" (the first column holds the
\* string 'None'), "nan" (a gap), "zero" (a replaced token), "interp" (a filled gap).
Holed(n, w, marks) == [len |-> n, w |-> w, marks |-> marks]
Frame(n, w) == Holed(n, w, <<>>)
Kind(f, t) == IF t \in DOMAIN f.marks THEN f.marks[t] ELSE "obs"
Remark(f, kinds) == [f EXCEPT !.marks = [t \in {u \in 1..f.len : kinds[u] # "obs"} |-> kinds[t]]]
HasToken(f) == \E t \in 1..f.len : Kind(f, t) = "none"

\* df.replace('None', 0)
replace_none(f) ==
  Remark(f, [t \in 1..f.len |-> IF Kind(f, t) = "none" THEN "zero" ELSE Kind(f, t)])

\* df.interpolate(): linear, forward; a gap is filled once a value precedes it
interpolate(f) ==
  Remark(f, [t \in 1..f.len |->
               IF Kind(f, t) = "nan" /\ \E u \in 1..(t - 1) : Kind(f, u) # "nan"
               THEN "interp" ELSE Kind(f, t)])

Obs(t) == [k |-> "obs", t |-> t]                     \* the observed row of time t
Diff(a, b) == [k |-> "diff", hi |-> a.t, lo |-> b.t] \* row a - row b
NaNRow == [k |-> "nan"]                              \* a row of np.nan
Est(p) == [k |-> "est", pos |-> p]                   \* the predictor's output for the target slot at position p
Sum(y, d) == [k |-> "sum", base |-> y, add |-> d]    \* y + d

\* df.values: the matrix of a frame
Values(f) == [w |-> f.w, rows |-> [t \in 1..f.len |-> [k |-> Kind(f, t), t |-> t]]]

NRows(m) == Len(m.rows)

\* a matrix holding a string
HasString(m) == \E i \in 1..NRows(m) : m.rows[i].k = "none"

\* delta: df.diff(periods=1, axis=0)[1:]  /  df[1:] - df[:-1]
delta(m) ==
  [w |-> m.w,
   rows |-> [i \in 1..Max(NRows(m) - 1, 0) |-> Diff(m.rows[i + 1], m.rows[i])]]

\* transform: first-order difference iff the stored delta flag is set
transform(c, m) == IF c.model.model_delta THEN delta(m) ELSE m

\* The input chain of each operation: the frame it works on after the repair
\* (df) and the matrix it hands to normalize (m), or the error of the chain.
Input(err, at, df, m) == [err |-> err, at |-> at, df |-> df, m |-> m]

\* train: replace('None', 0), interpolate iff the flag is set, transform
train_input(c, df) ==
  LET df1 == replace_none(df)
      df2 == IF c.model.interpolate THEN interpolate(df1) ELSE df1
  IN  Input("", "transform", df2, transform(c, Values(df2)))

\* predict: interpolate iff the flag is set, transform.  pandas refuses to
\* interpolate a frame whose columns are all of object dtype, and cannot
\* subtract a number from a string.
predict_input(c, df) ==
  IF c.model.interpolate /\ HasToken(df) /\ df.w = 1
  THEN Input("TypeError: Cannot interpolate with all object-dtype columns", "interpolate", df, NotReached)
  ELSE LET df1 == IF c.model.interpolate THEN interpolate(df) ELSE df
       IN  IF c.model.model_delta /\ HasToken(df1)
           THEN Input("TypeError: unsupported operand type(s) for -", "transform", df1, NotReached)
           ELSE Input("", "transform", df1, transform(c, Values(df1)))

\* eval: interpolate and cast to float32 iff the flag is set, transform
eval_input(c, df) ==
  IF c.model.interpolate /\ HasToken(df)
  THEN IF df.w = 1
       THEN Input("TypeError: Cannot interpolate with all object-dtype columns", "interpolate", df, NotReached)
       ELSE Input("ValueError: could not convert string to float", "interpolate", df, NotReached)
  ELSE LET df1 == IF c.model.interpolate THEN interpolate(df) ELSE df
       IN  IF c.model.model_delta /\ HasToken(df1)
           THEN Input("TypeError: unsupported operand type(s) for -", "transform", df1, NotReached)
           ELSE Input("", "transform", df1, transform(c, Values(df1)))

----------------------------------------------------------------------------
(* The scaler: sklearn.preprocessing.MinMaxScaler *)

NewScaler == [kind |-> "MinMaxScaler", fit |-> FALSE]
FitScaler(m) == [kind |-> "MinMaxScaler", fit |-> TRUE, w |-> m.w, on |-> m.rows]

\* get_scaler: creates (and stores) an unfit scaler when there is none
get_scaler(sc) == IF sc = None THEN NewScaler ELSE sc

\* numpy in-place broadcasting of an (n, w) matrix with the scaler's (sw,) vectors
Broadcasts(w, sw) == sw = w \/ sw = 1

\* a faulty normalize: fit_transform whatever fit says
normalize_refit(m, sc, fit) ==
  IF HasString(m)
  THEN [err |-> "ValueError: could not convert string to float", m |-> m, sc |-> NewScaler]
  ELSE IF NRows(m) = 0
  THEN [err |-> "ValueError: 0 samples", m |-> m, sc |-> NewScaler]
  ELSE [err |-> "", m |-> m, sc |-> FitScaler(m)]

\* normalize(df, scaler, fit): scaler.fit_transform(df) if fit else scaler.transform(df).
\* fit() resets the scaler before it validates the data.
normalize(m, sc, fit) ==
  IF fit
  THEN IF HasString(m)
       THEN [err |-> "ValueError: could not convert string to float", m |-> m, sc |-> NewScaler]
       ELSE IF NRows(m) = 0
       THEN [err |-> "ValueError: 0 samples", m |-> m, sc |-> NewScaler]
       ELSE [err |-> "", m |-> m, sc |-> FitScaler(m)]
  ELSE IF ~sc.fit
       THEN [err |-> "NotFittedError", m |-> m, sc |-> sc]
       ELSE IF HasString(m)
       THEN [err |-> "ValueError: could not convert string to float", m |-> m, sc |-> sc]
       ELSE IF NRows(m) = 0
            THEN [err |-> "ValueError: 0 samples", m |-> m, sc |-> sc]
            ELSE IF ~Broadcasts(m.w, sc.w)
                 THEN [err |-> "ValueError: shape mismatch", m |-> m, sc |-> sc]
                 ELSE [err |-> "", m |-> m, sc |-> sc]

\* inverse_normalize(df): get_scaler().inverse_transform(df)
inverse_normalize(m, sc) ==
  IF ~sc.fit
  THEN [err |-> "NotFittedError", m |-> m]
  ELSE IF ~Broadcasts(m.w, sc.w)
       THEN [err |-> "ValueError: shape mismatch", m |-> m]
       ELSE [err |-> "", m |-> m]

----------------------------------------------------------------------------
(* Windowing: keras TimeseriesGenerator as get_tsg calls it *)

\* a row of the matrix handed to get_tsg, with its position in that matrix
Indexed(rows) == [i \in 1..Len(rows) |-> [pos |-> i, row |-> rows[i]]]

\* a faulty TimeseriesGenerator: the target is read at the last row of the window
TimeseriesGeneratorLastRow(data, targets, length, batch_size) ==
  [err |-> IF length > Len(data) - 1 THEN "ValueError: start_index+length > end_index" ELSE "",
   windows |-> [j \in 1..Max(Len(data) - length, 0) |->
                  [x |-> Slice(data, j - 1, j - 1 + length), y |-> targets[j - 1 + length]]],
   batches |-> 0]

\* TimeseriesGenerator(data, targets, length, sampling_rate=1, stride=1, batch_size)
TimeseriesGenerator(data, targets, length, batch_size) ==
  LET start_index == length
      end_index == Len(data) - 1
  IN  IF Len(data) # Len(targets)
      THEN [err |-> "ValueError: data and targets differ in length", windows |-> <<>>, batches |-> 0]
      ELSE IF start_index > end_index
           THEN [err |-> "ValueError: start_index+length > end_index", windows |-> <<>>, batches |-> 0]
           ELSE [err |-> "",
                 windows |-> [j \in 1..(end_index - start_index + 1) |->
                                LET i == start_index + j - 1
                                IN  [x |-> Slice(data, i - length, i), y |-> targets[i + 1]]],
                 batches |-> (end_index - start_index + batch_size) \div batch_size]

\* a faulty get_tsg: the horizon offset of the two streams is forgotten
get_tsg_unshifted(c, m, steps_ahead, batch_size) ==
  TimeseriesGenerator(Indexed(m.rows), Indexed(m.rows), c.model.sequence_len, batch_size)

\* get_tsg(df, steps_ahead, batch_size)
get_tsg(c, m, steps_ahead, batch_size) ==
  LET df == Indexed(m.rows)
      length == c.model.sequence_len
      x == IF steps_ahead > 1 THEN Slice(df, 0, Max(Len(df) - (steps_ahead - 1), 0)) ELSE df
      y == IF steps_ahead > 1 THEN Slice(df, Min(steps_ahead - 1, Len(df)), Len(df)) ELSE df
  IN  TimeseriesGenerator(x, y, length, batch_size)

----------------------------------------------------------------------------
(* The predictor: a keras Model *)

\* backend.clear_session(): the process's Keras graph is destroyed and a new one is
\* current; e.session counts the graphs the process has had
clear_session(e) == [e EXCEPT !.session = @ + 1]

\* Model(inputs=Input(shape=(sequence_len, multivariate)), outputs=Dense(multivariate)(h)),
\* built in the graph g that is current
KerasModel(s, w, topo, g) ==
  [kind |-> "Model", s |-> s, w |-> w, topo |-> topo, fitted |-> FALSE, graph |-> g]

\* the predictor's tensors belong to the graph that is current
InCurrentGraph(e, mdl) == mdl.graph = e.session

\* the generator's windows fit the model's Input(shape=(s, w))
AcceptsWindows(mdl, s, w) == mdl.s = s /\ mdl.w = w

\* one output row per window, in window order: the estimate of the window's target slot
PredictorOutput(mdl, windows) ==
  [w |-> mdl.w, rows |-> [j \in 1..Len(windows) |-> Est(windows[j].y.pos)]]

----------------------------------------------------------------------------
(* predict and eval *)

\* what a run of predict / eval did: the error raised ("" = none), the stages entered,
\* the rows handed to get_tsg, the windows it produced, the rows returned, the
\* scaler afterwards, and whether the predictor's capability was invoked
Result(err, stages, given, nwin, out, sc, invoked) ==
  [err |-> err, stages |-> stages, given |-> given, nwin |-> nwin, out |-> out,
   sc |-> sc, invoked |-> invoked]


\* inverse_transform(original, pred_denorm)
inverse_transform(c, original, pred_denorm) ==
  IF c.model.model_delta
  THEN LET seql == c.model.sequence_len
           all == Values(original)
           y == Slice(all.rows, Min(seql, NRows(all)), NRows(all))
           d == pred_denorm.rows
       IN  IF Len(y) # Len(d) \/ all.w # pred_denorm.w
           THEN [err |-> "ValueError: shape mismatch", rows |-> <<>>]
           ELSE [err |-> "", rows |-> [i \in 1..Len(y) |-> Sum(y[i], d[i])]]
  ELSE [err |-> "", rows |-> pred_denorm.rows]

\* a faulty PadWidth: the dummy rows take the width of the matrix they are appended to
PadWidthOfMatrix(c, norm) == norm.w

\* dummy = [np.nan] * self.get_multivariate(): the width of the rows predict appends
PadWidth(c, norm) == c.model.multivariate

\* a faulty Padding: no dummy row is appended
NoPadding(c) == <<>>

\* for i in range(self.get_steps_ahead()): norm = np.append(norm, [dummy], axis=0)
Padding(c) == [i \in 1..c.model.steps_ahead |-> NaNRow]

\* the stages up to and including the given one
Upto(stages, stage) ==
  SubSeq(stages, 1, CHOOSE i \in 1..Len(stages) : stages[i] = stage)

\* a faulty predict_stages: the differencing is undone before the scaling
predict_stages_swapped(c) ==
  (IF c.model.interpolate THEN <<"interpolate">> ELSE <<>>)
    \o <<"transform", "normalize", "pad", "get_tsg", "predict_generator",
         "inverse_transform", "inverse_normalize">>

\* the statements of predict, in the order in which it runs them
predict_stages(c) ==
  (IF c.model.interpolate THEN <<"interpolate">> ELSE <<>>)
    \o <<"transform", "normalize", "pad", "get_tsg", "predict_generator",
         "inverse_normalize", "inverse_transform">>

\* predict(df)
predict(e, c, mdl, sc0, df0) ==
  LET cm == c.model
      inp == predict_input(c, df0)
      df == inp.df
      trans == inp.m
      sc == get_scaler(sc0)
      n == normalize(trans, sc, FALSE)
      s3 == Upto(predict_stages(c), "normalize")
      s4 == Upto(predict_stages(c), "pad")
      s5 == Upto(predict_stages(c), "get_tsg")
      s6 == Upto(predict_stages(c), "predict_generator")
      s7 == Upto(predict_stages(c), "inverse_normalize")
      s8 == Upto(predict_stages(c), "inverse_transform")
  IN  IF inp.err # ""
      THEN Result(inp.err, Upto(predict_stages(c), inp.at), NotReached, NotReached, <<>>, sc0, FALSE)
      ELSE IF n.err # "" THEN Result(n.err, s3, NotReached, NotReached, <<>>, n.sc, FALSE)
      ELSE IF "multivariate" \notin DOMAIN cm
      THEN Result("KeyError: multivariate", s4, NotReached, NotReached, <<>>, n.sc, FALSE)
      ELSE IF cm.steps_ahead > 0 /\ n.m.w # PadWidth(c, n.m)
      THEN Result("ValueError: dimension mismatch", s4, NotReached, NotReached, <<>>, n.sc, FALSE)
      ELSE
        LET norm == [w |-> n.m.w, rows |-> n.m.rows \o Padding(c)]
            tsg == get_tsg(c, norm, cm.steps_ahead, cm.batch_size)
            nwin == Len(tsg.windows)
        IN  IF tsg.err # "" THEN Result(tsg.err, s5, NRows(norm), 0, <<>>, n.sc, FALSE)
            ELSE IF mdl = None
            THEN Result("AttributeError: no model", s5, NRows(norm), nwin, <<>>, n.sc, FALSE)
            ELSE IF ~InCurrentGraph(e, mdl)
            THEN Result("ValueError: Tensor is not an element of this graph", s6, NRows(norm), nwin, <<>>, n.sc, TRUE)
            ELSE IF ~AcceptsWindows(mdl, cm.sequence_len, norm.w)
            THEN Result("ValueError: input shape", s6, NRows(norm), nwin, <<>>, n.sc, TRUE)
            ELSE
              LET pred == PredictorOutput(mdl, tsg.windows)
                  pred_denorm == inverse_normalize(pred, n.sc)
                  pred_invtrans == inverse_transform(c, df, pred_denorm.m)
              IN  IF pred_denorm.err # "" THEN Result(pred_denorm.err, s7, NRows(norm), nwin, <<>>, n.sc, TRUE)
                  ELSE IF pred_invtrans.err # "" THEN Result(pred_invtrans.err, s8, NRows(norm), nwin, <<>>, n.sc, TRUE)
                  ELSE Result("", s8, NRows(norm), nwin, pred_invtrans.rows, n.sc, TRUE)

\* eval(df)
eval(e, c, mdl, sc0, df) ==
  LET cm == c.model
      s1 == IF cm.interpolate THEN <<"interpolate">> ELSE <<>>
      inp == eval_input(c, df)
      trans == inp.m
      s2 == s1 \o <<"transform">>
      n == normalize(trans, get_scaler(sc0), TRUE)
      s3 == s2 \o <<"normalize_fit">>
      s4 == s3 \o <<"get_tsg">>
      s5 == s4 \o <<"evaluate_generator">>
  IN  IF inp.err # ""
      THEN Result(inp.err, IF inp.at = "interpolate" THEN s1 ELSE s2, NotReached, NotReached, <<>>, sc0, FALSE)
      ELSE IF n.err # "" THEN Result(n.err, s3, NotReached, NotReached, <<>>, n.sc, FALSE)
      ELSE
        LET tsg == get_tsg(c, n.m, cm.steps_ahead, cfg_batch_size_test)
            nwin == Len(tsg.windows)
        IN  IF tsg.err # "" THEN Result(tsg.err, s4, NRows(n.m), 0, <<>>, n.sc, FALSE)
            ELSE IF mdl = None
            THEN Result("AttributeError: no model", s4, NRows(n.m), nwin, <<>>, n.sc, FALSE)
            ELSE IF ~InCurrentGraph(e, mdl)
            THEN Result("ValueError: Tensor is not an element of this graph", s5, NRows(n.m), nwin, <<>>, n.sc, TRUE)
            ELSE IF ~AcceptsWindows(mdl, cm.sequence_len, n.m.w)
            THEN Result("ValueError: input shape", s5, NRows(n.m), nwin, <<>>, n.sc, TRUE)
            ELSE Result("", s5, NRows(n.m), nwin, <<"loss", "mse", "mae">>, n.sc, TRUE)

----------------------------------------------------------------------------
(* Configuration *)

\* the hyperparameters of train, by their key in config['model']
Hyperparameters ==
  {"sequence_len", "model_delta", "interpolate", "model_type", "epochs", "epochs_patience",
   "blocks", "stacked_blocks", "steps_ahead", "batch_size", "batch_normalization", "dropout_rate"}

\* the value of cfg.<name> that train's signature and __default_config read;
\* cfg.stacked_blocks, cfg.batch_normalization and cfg.dropout_rate are not set in
\* src/mods/config.py: they are whatever the process has (e)
cfg(e, h) ==
  CASE h = "sequence_len" -> cfg_sequence_len
    [] h = "model_delta" -> cfg_model_delta
    [] h = "interpolate" -> cfg_interpolate
    [] h = "model_type" -> cfg_model_type
    [] h = "epochs" -> cfg_num_epochs
    [] h = "epochs_patience" -> cfg_epochs_patience
    [] h = "blocks" -> cfg_blocks
    [] h = "stacked_blocks" -> e.stacked_blocks
    [] h = "steps_ahead" -> cfg_steps_ahead
    [] h = "batch_size" -> cfg_batch_size
    [] h = "batch_normalization" -> e.batch_normalization
    [] h = "dropout_rate" -> e.dropout_rate

\* __default_config
default_config(e) ==
  [model |-> [k \in Hyperparameters \cup {"file"} |-> IF k = "file" THEN "model.h5" ELSE cfg(e, k)],
   scaler |-> [file |-> "scaler.pkl"]]

\* __get_sample_data_cfg
get_sample_data_cfg(c) == IF "sample_data" \in DOMAIN c THEN c.sample_data ELSE None

----------------------------------------------------------------------------
(* train *)

\* the value bound to a parameter of train: an absent keyword takes the default of
\* the signature, which is cfg.<name>
Bound(e, args, h) == IF args[h] = Absent THEN Val(cfg(e, h)) ELSE args[h]

\* "if x is None: x = self.get_x() else: self.set_x(x)": the local x afterwards
Local(cm, h, a) == IF a = None THEN cm[h] ELSE a.v

\* ... and the stored value afterwards
Stored(cm, h, a) == IF a = None THEN cm[h] ELSE a.v

\* config['model'] after set_multivariate and the twelve merges
MergedModelCfg(e, cm, args, multivariate) ==
  [k \in DOMAIN cm \cup {"multivariate"} |->
     IF k = "multivariate" THEN multivariate
     ELSE IF k \in Hyperparameters THEN Stored(cm, k, Bound(e, args, k))
     ELSE cm[k]]

\* the number of units of the recurrent layers: GRU(cfg.blocks), LSTM(cfg.blocks), ...
RecurrentUnits(loc) == cfg_blocks

Recurrent == {"GRU", "LSTM", "bidirectLSTM", "attentionLSTM", "seq2seqLSTM"}

\* "Define model": the layers h built for model_type, None when no branch matches
Topology(e, loc) ==
  LET t == loc.model_type
      sb == loc.stacked_blocks
      Layers(device, units, variant, depth) ==
        [type |-> t, device |-> device, units |-> units, variant |-> variant, depth |-> depth]
  IN  IF t \in {"MLP", "autoencoderMLP", "Conv1D", "TCN"} THEN Layers("any", 0, "plain", 1)
      ELSE IF t = "stackedTCN" /\ sb > 1 THEN Layers("any", 0, "plain", sb)
      ELSE IF ~e.gpu
      THEN IF t \in Recurrent THEN Layers("cpu", RecurrentUnits(loc), "plain", 1)
           ELSE IF t = "stackedLSTM" /\ sb > 1 THEN Layers("cpu", RecurrentUnits(loc), "plain", 1)
           ELSE None
      ELSE IF t \in Recurrent \ {"seq2seqLSTM"} THEN Layers("gpu", RecurrentUnits(loc), "plain", 1)
           ELSE IF t = "seq2seqLSTM"
           THEN IF loc.batch_normalization THEN Layers("gpu", RecurrentUnits(loc), "batch_normalization", 1)
                ELSE IF 0 < loc.dropout_rate /\ loc.dropout_rate < 10
                THEN Layers("gpu", RecurrentUnits(loc), "dropout", 1)
                ELSE Layers("gpu", RecurrentUnits(loc), "plain", 1)
           ELSE IF t = "stackedLSTM" /\ sb > 1 THEN Layers("gpu", RecurrentUnits(loc), "plain", 1)
           ELSE None

\* the hyperparameter values the training run consumes, by use site
Consumed(loc, cm, topo) ==
  [sequence_len |-> loc.sequence_len,          \* Input(shape=(sequence_len, ...)), get_tsg length
   model_delta |-> cm.model_delta,             \* transform: self.isdelta()
   interpolate |-> cm.interpolate,             \* self.get_interpolate()
   model_type |-> loc.model_type,              \* the topology branch
   epochs |-> loc.epochs,                      \* fit_generator(epochs=num_epochs)
   epochs_patience |-> loc.epochs_patience,    \* EarlyStopping(patience=epochs_patience)
   blocks |-> topo.units,                      \* the recurrent layers' units (0: none built)
   stacked_blocks |-> loc.stacked_blocks,      \* the stacked branches
   steps_ahead |-> loc.steps_ahead,            \* get_tsg(steps_ahead=steps_ahead)
   batch_size |-> loc.batch_size,              \* get_tsg(batch_size=batch_size)
   batch_normalization |-> loc.batch_normalization,
   dropout_rate |-> loc.dropout_rate]

TrainResult(err, stages, given, nwin, invoked, c, mdl, sc, met, used) ==
  [err |-> err, stages |-> stages, given |-> given, nwin |-> nwin, invoked |-> invoked,
   out |-> <<>>, config |-> c, model |-> mdl, scaler |-> sc, metrics |-> met, used |-> used]

\* a faulty NotSpecified: the topology is looked at only after the data work
NotSpecifiedLate(c1, mdl0, sc0, met0, df_train) ==
  TrainResult("Exception: model not specified",
              <<"define_model", "replace_none", "transform", "normalize_fit">>, NotReached, NotReached,
              FALSE, c1, mdl0, normalize(transform(c1, Values(df_train)), get_scaler(sc0), TRUE).sc,
              met0, None)

\* "if h is None: raise Exception('model not specified (h is None)')": what train
\* has done when it raises (the configuration is merged, nothing else is touched)
NotSpecified(c1, mdl0, sc0, met0, df_train) ==
  TrainResult("Exception: model not specified", <<"define_model">>, NotReached, NotReached, FALSE,
              c1, mdl0, sc0, met0, None)

\* train(df_train, sequence_len=..., ...): fit_ok and duration are the environment's
\* (whether fit_generator returns, and the wall-clock time it took)
train(e, c, mdl0, sc0, met0, args, df_train, fit_ok, duration) ==
  LET multivariate == df_train.w
      cm0 == c.model
      loc == [h \in Hyperparameters |-> Local(cm0, h, Bound(e, args, h))]
      c1 == [c EXCEPT !.model = MergedModelCfg(e, cm0, args, multivariate)]
      h == Topology(e, loc)
      s1 == <<"define_model">>
  IN  IF h = None
      THEN NotSpecified(c1, mdl0, sc0, met0, df_train)
      ELSE
        LET mdl1 == KerasModel(loc.sequence_len, multivariate, h, e.session)
            used == Consumed(loc, c1.model, h)
            s2 == s1 \o <<"compile", "replace_none">>
            s3 == IF c1.model.interpolate THEN s2 \o <<"interpolate">> ELSE s2
            trans == train_input(c1, df_train).m
            s4 == s3 \o <<"transform">>
            n == normalize(trans, get_scaler(sc0), TRUE)
            s5 == s4 \o <<"normalize_fit">>
            s6 == s5 \o <<"get_tsg">>
            s7 == s6 \o <<"fit_generator">>
        IN  IF n.err # ""
            THEN TrainResult(n.err, s5, NotReached, NotReached, FALSE, c1, mdl1, n.sc, met0, used)
            ELSE
              LET tsg == get_tsg(c1, n.m, loc.steps_ahead, loc.batch_size)
                  nwin == Len(tsg.windows)
              IN  IF tsg.err # ""
                  THEN TrainResult(tsg.err, s6, NRows(n.m), 0, FALSE, c1, mdl1, n.sc, met0, used)
                  ELSE IF ~fit_ok
                  THEN TrainResult("Error: fit_generator", s7, NRows(n.m), nwin, TRUE,
                                   c1, mdl1, n.sc, met0, used)
                  ELSE TrainResult("", s7, NRows(n.m), nwin, TRUE, c1,
                                   [mdl1 EXCEPT !.fitted = TRUE], n.sc,
                                   DictSet(met0, "training_time", duration), used)

----------------------------------------------------------------------------
(* Metrics *)

\* get_training_time(): config['model']['training_time'] if the manifest has the key
\* (the manifests here hold a number there; a null would make the method fall off
\* its end); the metrics are read only when the lookup in the manifest raises
get_training_time(c, met) ==
  IF "training_time" \in DOMAIN c.model
  THEN Val(c.model.training_time)
  ELSE IF "training_time" \in DOMAIN met THEN Val(met.training_time)
       ELSE [kind |-> "KeyError"]

\* a faulty update_metrics: the new metrics replace the old ones
update_metrics_replace(met, m) == m

\* update_metrics(metrics): self.__metrics.update(metrics)
update_metrics(met, m) ==
  [k \in DOMAIN met \cup DOMAIN m |-> IF k \in DOMAIN m THEN m[k] ELSE met[k]]

----------------------------------------------------------------------------
(* Archive names.  A file name is the sequence of its characters. *)

Zip == <<".", "z", "i", "p">>

\* str.lower on the characters that occur in the names
lower_char(ch) == CASE ch = "Z" -> "z" [] ch = "I" -> "i" [] ch = "P" -> "p" [] OTHER -> ch

lower(file) == [i \in DOMAIN file |-> lower_char(file[i])]

\* str.endswith
endswith(file, suffix) ==
  /\ Len(file) >= Len(suffix)
  /\ SubSeq(file, Len(file) - Len(suffix) + 1, Len(file)) = suffix

\* save: "if not file.lower().endswith('.zip'): file += '.zip'"
SaveName(file) == IF ~endswith(lower(file), Zip) THEN file \o Zip ELSE file

\* a faulty LoadName: the extension is compared without lower-casing
LoadNameCaseSensitive(file) == IF ~endswith(file, Zip) THEN file \o Zip ELSE file

\* load: "if not file.lower().endswith('.zip'): file += '.zip'"
LoadName(file) == IF ~endswith(lower(file), Zip) THEN file \o Zip ELSE file

\* the names a caller gives: without the extension, with it, with it in upper case
Names == {<<"m">>, <<"m">> \o Zip, <<"m", ".", "Z", "I", "P">>}

----------------------------------------------------------------------------
(* JSON.  json.dumps turns a value into a literal by its Python type, which here *)
(* is the type of the key that holds it; json.loads parses the literal back.     *)

JsonBools == {"model_delta", "interpolate", "batch_normalization"}
JsonStrings == {"file", "model_type", "sep", "engine"}
JsonArrays == {"usecols"}

\* the numbers whose decimal literal json.loads is asked to parse here
JsonNumbers == 0..99

json_dumps_value(k, v) ==
  IF k \in JsonBools THEN (IF v THEN [t |-> "true"] ELSE [t |-> "false"])
  ELSE IF k \in JsonStrings THEN [t |-> "string", chars |-> v]
  ELSE IF k \in JsonArrays THEN [t |-> "array", items |-> [i \in DOMAIN v |-> [t |-> "string", chars |-> v[i]]]]
  ELSE [t |-> "number", digits |-> ToString(v)]

json_loads_value(lit) ==
  CASE lit.t = "true" -> TRUE
    [] lit.t = "false" -> FALSE
    [] lit.t = "string" -> lit.chars
    [] lit.t = "array" -> [i \in DOMAIN lit.items |-> lit.items[i].chars]
    [] lit.t = "number" -> CHOOSE n \in JsonNumbers : ToString(n) = lit.digits

\* a flat dict (a section of the config, the metrics)
json_dumps_object(d) == [t |-> "object", members |-> [k \in DOMAIN d |-> json_dumps_value(k, d[k])]]

json_loads_object(lit) == [k \in DOMAIN lit.members |-> json_loads_value(lit.members[k])]

\* json.dumps(self.config): a dict of sections
json_dumps(c) == [t |-> "object", members |-> [sec \in DOMAIN c |-> json_dumps_object(c[sec])]]

\* json.loads of a manifest
json_loads(lit) == [sec \in DOMAIN lit.members |-> json_loads_object(lit.members[sec])]

----------------------------------------------------------------------------
(* Archives: the members of a zip file, by member name *)

Json(text) == [kind |-> "json", text |-> text]
\* model.save(fname): the architecture and the weights, not the graph
H5(mdl) == [kind |-> "h5", model |-> [f \in DOMAIN mdl \ {"graph"} |-> mdl[f]]]

\* keras.models.load_model(fname): the predictor is rebuilt in the current graph
load_model(e, member) ==
  [f \in DOMAIN member.model \cup {"graph"} |-> IF f = "graph" THEN e.session ELSE member.model[f]]
Pkl(obj) == [kind |-> "pkl", obj |-> obj]
Csv(frame) == [kind |-> "csv", frame |-> frame]

\* bytes that no reader accepts (an empty or corrupted member)
Garbage == [kind |-> "garbage"]

DictRemove(d, k) == [x \in DOMAIN d \ {k} |-> d[x]]

\* whether member m of the archive is there and readable as kind
MemberState(zip, m, kind) ==
  IF m \notin DOMAIN zip THEN "missing"
  ELSE IF zip[m].kind # kind THEN "malformed"
  ELSE "ok"

\* what a call has left behind when control is back at the caller: the temporary
\* files it created and did not remove, the descriptors it opened and did not close
Left(files, fds) == [files |-> files, fds |-> fds]

SaveResult(err, stages, zip, left) == [err |-> err, stages |-> stages, zip |-> zip, left |-> left]

\* the body of save's "with ZipFile(file, mode='w') as zip": the members written
\* when the block is left, by return or by exception.  __save_model and __save_scaler
\* each take "_, fname = tempfile.mkstemp()": the descriptor is dropped open, and
\* os.remove(fname) is reached only if the write in between returns
save(c, mdl, sc, sd, met) ==
  LET z1 == DictSet(EmptyDict, "config.json", Json(json_dumps(c)))     \* __save_config
      sdc == get_sample_data_cfg(c)
  IN  IF mdl = None                                                    \* __save_model
      THEN SaveResult("AttributeError: no model", <<"config", "model">>, z1, Left(1, 1))
      ELSE
        LET z2 == DictSet(z1, c.model.file, H5(mdl))
            z3 == DictSet(z2, c.scaler.file, Pkl(sc))                  \* __save_scaler
            s3 == <<"config", "model", "scaler">>
        IN  IF sdc # None /\ sd # None                                 \* __save_sample_data
            THEN SaveResult("TypeError: to_csv", s3 \o <<"sample_data">>, DictSet(z3, sdc.file, Garbage),
                             Left(0, 2))
            ELSE SaveResult("", s3 \o <<"sample_data", "metrics">>,
                            DictSet(z3, "metrics.json", Json(json_dumps_object(met))),  \* __save_metrics
                            Left(0, 2))

LoadResult(err, stages, c, mdl, sc, sd, met, left) ==
  [err |-> err, stages |-> stages, config |-> c, model |-> mdl, scaler |-> sc,
   sample_data |-> sd, metrics |-> met, left |-> left]

\* __init: the prediction on the sample data that ends load
SelfCheck(e, c, mdl, sc, sd) ==
  IF sd = None THEN Result("", <<>>, 0, 0, <<>>, sc, FALSE) ELSE predict(e, c, mdl, sc, sd)

\* load(file) on an artifact holding c0, mdl0, sc0, sd0, met0, file system fsys,
\* in process e.  __load_model goes through __func_over_tempfile, which drops the
\* descriptor of mkstemp open and removes the temporary file only if
\* keras.models.load_model returns
load(e, c0, mdl0, sc0, sd0, met0, fsys, path) ==
  IF path \notin DOMAIN fsys
  THEN LoadResult("FileNotFoundError", <<>>, c0, mdl0, sc0, sd0, met0, Left(0, 0))
  ELSE
    LET zip == fsys[path]
        s1 == <<"config">>
        s2 == <<"config", "model">>
        s3 == <<"config", "model", "scaler">>
        s5 == <<"config", "model", "scaler", "sample_data", "metrics", "init">>
    IN  IF MemberState(zip, "config.json", "json") = "missing"             \* __load_config
        THEN LoadResult("KeyError: no item in the archive", s1, c0, mdl0, sc0, sd0, met0, Left(0, 0))
        ELSE IF MemberState(zip, "config.json", "json") = "malformed"
        THEN LoadResult("JSONDecodeError", s1, c0, mdl0, sc0, sd0, met0, Left(0, 0))
        ELSE
          LET c1 == json_loads(zip["config.json"].text)
              mf == c1.model.file
              sf == c1.scaler.file
              sdc == get_sample_data_cfg(c1)
          IN  IF MemberState(zip, mf, "h5") = "missing"                    \* __load_model
              THEN LoadResult("KeyError: no item in the archive", s2, c1, mdl0, sc0, sd0, met0, Left(0, 0))
              ELSE IF MemberState(zip, mf, "h5") = "malformed"
              THEN LoadResult("OSError: unable to open file", s2, c1, mdl0, sc0, sd0, met0, Left(1, 1))
              ELSE IF MemberState(zip, sf, "pkl") = "missing"              \* __load_scaler
              THEN LoadResult("KeyError: no item in the archive", s3, c1, load_model(e, zip[mf]), sc0, sd0, met0,
                              Left(0, 1))
              ELSE IF MemberState(zip, sf, "pkl") = "malformed"
              THEN LoadResult("UnpicklingError", s3, c1, load_model(e, zip[mf]), sc0, sd0, met0, Left(0, 1))
              ELSE
                LET mdl1 == load_model(e, zip[mf])
                    sc1 == zip[sf].obj
                    sd1 == IF sdc # None /\ MemberState(zip, sdc.file, "csv") = "ok"   \* __load_sample_data
                           THEN zip[sdc.file].frame ELSE sd0
                    met1 == IF MemberState(zip, "metrics.json", "json") = "ok"         \* __load_metrics
                            THEN json_loads_object(zip["metrics.json"].text) ELSE met0
                    chk == SelfCheck(e, c1, mdl1, sc1, sd1)                               \* __init
                IN  LoadResult(chk.err, s5, c1, mdl1, chk.sc, sd1, met1, Left(0, 1))

----------------------------------------------------------------------------
(* Inputs *)

\* the frames a caller may pass: 0..MaxLen rows, and the 20-row frame of the
\* documented scenario; 1..MaxWidth columns
Frames == {Frame(n, w) : n \in 0..MaxLen, w \in 1..MaxWidth} \cup {Frame(20, 2)}

\* model_type tags a caller may pass: one that resolves everywhere, one recurrent,
\* one stacked, and the configured default
\* the choices the configuration offers for model_type
Choices == {cfg_model_types[i] : i \in 1..Len(cfg_model_types)}

ModelTypes == {"MLP", "LSTM", "stackedLSTM", cfg_model_type} \cup Choices

\* explicit values of each hyperparameter
Explicit(h) ==
  CASE h = "sequence_len" -> 1..MaxSeqLen
    [] h = "steps_ahead" -> 1..MaxSteps
    [] h = "model_delta" -> BOOLEAN
    [] h = "interpolate" -> BOOLEAN
    [] h = "model_type" -> ModelTypes
    [] h = "epochs" -> {cfg_num_epochs, 5}
    [] h = "epochs_patience" -> {cfg_epochs_patience, 3}
    [] h = "blocks" -> {cfg_blocks, 12}
    [] h = "stacked_blocks" -> {1, 2}
    [] h = "batch_size" -> {cfg_batch_size, 2}
    [] h = "batch_normalization" -> BOOLEAN
    [] h = "dropout_rate" -> {0, 2}      \* in tenths

\* wall-clock durations of fit_generator
Durations == {1, 2}

\* the processes: with or without a GPU; the cfg defaults config.py does not set
Envs ==
  [gpu : BOOLEAN, stacked_blocks : {1, 2}, batch_normalization : BOOLEAN, dropout_rate : {0, 2},
   session : {0}]

----------------------------------------------------------------------------
(* State *)

Idle == [op |-> "idle"]

\* no archive on disk
NoFiles == [p \in {} |-> 0]

\* mods_model.__init__
InitArtifact(e) ==
  /\ config = default_config(e)
  /\ model = None
  /\ scaler = None
  /\ sample_data = None
  /\ metrics = EmptyDict

Init ==
  /\ env \in {e \in Envs : ~e.gpu /\ e.stacked_blocks = 2 /\ ~e.batch_normalization /\ e.dropout_rate = 0}
  /\ InitArtifact(env)
  /\ fs = NoFiles
  /\ saved = NoFiles
  /\ last = Idle
  /\ calls = 0

----------------------------------------------------------------------------
(* Operations on the artifact *)

\* train(df_train, **args): the whole call, whether it returns or raises;
\* after names the caller's frame object once the call is over: replace and
\* interpolate work on it in place
Train(args, df_train, fit_ok, duration) ==
  /\ last = Idle
  /\ LET r == train(env, config, model, scaler, metrics, args, df_train, fit_ok, duration)
     IN  /\ config' = r.config
         /\ model' = r.model
         /\ scaler' = r.scaler
         /\ metrics' = r.metrics
         /\ last' = [op |-> "train", args |-> args, frame |-> df_train, err |-> r.err, stages |-> r.stages,
                     given |-> r.given, nwin |-> r.nwin, out |-> r.out, invoked |-> r.invoked,
                     used |-> r.used, duration |-> duration,
                     after |-> IF \E i \in 1..Len(r.stages) : r.stages[i] = "replace_none"
                               THEN train_input(r.config, df_train).df ELSE df_train]
  /\ UNCHANGED <<sample_data, fs, env, saved>>

\* predict(df); df.interpolate() gives a new frame and leaves the caller's alone
Predict(df) ==
  /\ last = Idle
  /\ LET r == predict(env, config, model, scaler, df)
     IN  /\ scaler' = r.sc
         /\ last' = [op |-> "predict", args |-> None, frame |-> df, err |-> r.err, stages |-> r.stages,
                     given |-> r.given, nwin |-> r.nwin, out |-> r.out, invoked |-> r.invoked,
                     used |-> None, after |-> df]
  /\ UNCHANGED <<config, model, sample_data, metrics, fs, env, saved>>

\* eval(df)
Eval(df) ==
  /\ last = Idle
  /\ LET r == eval(env, config, model, scaler, df)
     IN  /\ scaler' = r.sc
         /\ last' = [op |-> "eval", args |-> None, frame |-> df, err |-> r.err, stages |-> r.stages,
                     given |-> r.given, nwin |-> r.nwin, out |-> r.out, invoked |-> r.invoked,
                     used |-> None, after |-> df]
  /\ UNCHANGED <<config, model, sample_data, metrics, fs, env, saved>>

\* control is back at the caller, which has taken the result or the exception
Return ==
  /\ last # Idle
  /\ last' = Idle
  /\ UNCHANGED <<config, model, scaler, sample_data, metrics, fs, env, saved>>

\* set_sequence_len, set_model_delta, ..., set_dropout_rate
Set(h, v) ==
  /\ last = Idle
  /\ config' = [config EXCEPT !.model = DictSet(config.model, h, v)]
  /\ UNCHANGED <<model, scaler, sample_data, metrics, fs, env, last, saved>>

\* set_sample_data(df)
SetSampleData(df) ==
  /\ last = Idle
  /\ sample_data' = df
  /\ UNCHANGED <<config, model, scaler, metrics, fs, env, last, saved>>

\* what a complete archive holds of the artifact that wrote it
Snapshot == [config |-> config, model |-> model, scaler |-> scaler, metrics |-> metrics]

\* save(file): ZipFile(file, mode='w') truncates the file at the path; what the
\* with-block wrote is what the file holds afterwards, whether save returned or raised
Save(file) ==
  /\ last = Idle
  /\ LET path == SaveName(file)
         r == save(config, model, scaler, sample_data, metrics)
     IN  /\ fs' = DictSet(fs, path, r.zip)
         /\ saved' = IF r.err = "" THEN DictSet(saved, path, Snapshot) ELSE DictRemove(saved, path)
         /\ last' = [op |-> "save", file |-> file, path |-> path, err |-> r.err, stages |-> r.stages,
                     left |-> r.left]
  /\ UNCHANGED <<config, model, scaler, sample_data, metrics, env>>

\* the call m.load(file) on an artifact holding c0 .. met0, in process e
LoadInto(e, c0, mdl0, sc0, sd0, met0, file, fresh) ==
  /\ last = Idle
  /\ env' = e
  /\ LET path == LoadName(file)
         r == load(e, c0, mdl0, sc0, sd0, met0, fs, path)
     IN  /\ config' = r.config
         /\ model' = r.model
         /\ scaler' = r.scaler
         /\ sample_data' = r.sample_data
         /\ metrics' = r.metrics
         /\ last' = [op |-> "load", file |-> file, path |-> path, err |-> r.err, stages |-> r.stages,
                     fresh |-> fresh, held |-> [sample_data |-> sd0, metrics |-> met0],
                     left |-> r.left]
  /\ UNCHANGED <<fs, saved>>

\* load(file) on the artifact at hand
Load(file) == LoadInto(env, config, model, scaler, sample_data, metrics, file, FALSE)

\* api_v2.load_model: clear_session, a new mods_model, then load
LoadModel(file) ==
  LoadInto(clear_session(env), default_config(env), None, None, None, EmptyDict, file, TRUE)

\* update_metrics(m)
UpdateMetrics(m) ==
  /\ last = Idle
  /\ metrics' = update_metrics(metrics, m)
  /\ last' = [op |-> "update_metrics", m |-> m, err |-> ""]
  /\ UNCHANGED <<config, model, scaler, sample_data, fs, env, saved>>

----------------------------------------------------------------------------
(* The API: api_v2.train *)

\* the hyperparameters api_v2.train hands to model.train, by their key in config['model']
ApiKeys ==
  {"sequence_len", "model_delta", "model_type", "epochs", "epochs_patience", "blocks",
   "steps_ahead", "batch_size"}

\* TrainArgsSchema().load(kwargs): a field the caller leaves out takes its missing=
\* value, cfg.<name>; keys the schema does not know are kept (unknown = INCLUDE)
schema_load(e, kwargs) ==
  [k \in ApiKeys \cup DOMAIN kwargs |-> IF k \in DOMAIN kwargs THEN kwargs[k] ELSE cfg(e, k)]

\* seq[lo:-k] of Python, k > 0
SliceBut(seq, lo, k) == IF Len(seq) - k > lo THEN SubSeq(seq, lo + 1, Len(seq) - k) ELSE <<>>

\* utl.compute_metrics(true_values, predictions, model): a map of metric names to
\* scalars; the scalar stands for the outcome on the rows compared
compute_metrics(y_true, y_pred) == [k \in {"mae", "rmse"} |-> Len(y_pred)]

\* what a call of api_v2.train did: the error raised ("" = none), the stages entered,
\* the process afterwards, the artifact it built, the archive it wrote (None: none),
\* the message it returned (None: none), the rows it handed to compute_metrics
\* (None: it did not get there)
ApiResult(err, stages, e, A, zip, message) ==
  [err |-> err, stages |-> stages, env |-> e, artifact |-> A, zip |-> zip, message |-> message,
   pairs |-> None]

\* train, "message = {...}": the two excluded-range keys it reads are not fields of
\* the schema
api_message(train_args, e1, A, zip, stages) ==
  IF "train_time_range_excluded" \notin DOMAIN train_args
  THEN ApiResult("KeyError: train_time_range_excluded", stages \o <<"message">>, e1, A, zip, None)
  ELSE ApiResult("", stages \o <<"message">>, e1, A, zip,
                 [status |-> "ok",
                  steps_ahead |-> A.config.model.steps_ahead,
                  batch_size |-> A.config.model.batch_size,
                  evaluation |-> A.metrics])

\* train, after "file = model.save(...)": dutils.rclone_call, then the message
api_sync(train_args, e1, A, sv, stages) ==
  IF sv.err # "" THEN ApiResult(sv.err, stages, e1, A, sv.zip, None)
  ELSE api_message(train_args, e1, A, sv.zip, stages \o <<"rclone">>)

\* train, "file = model.save(os.path.join(models_dir, model_name))"
api_save(train_args, e1, A, stages) ==
  api_sync(train_args, e1, A, save(A.config, A.model, A.scaler, None, A.metrics),
           stages \o <<"save">>)

\* train, after "predictions = model.predict(df_test)": compute_metrics on the
\* trimmed rows, update_metrics
api_evaluate(train_args, e1, A, p, df_test, stages) ==
  IF p.err # "" THEN ApiResult(p.err, stages, e1, [A EXCEPT !.scaler = p.sc], None, None)
  ELSE
    LET y_true == SliceBut(Values(df_test).rows, A.config.model.sequence_len,
                           train_args.steps_ahead)
        y_pred == SliceBut(p.out, 0, train_args.steps_ahead)
        m == compute_metrics(y_true, y_pred)
    IN  [api_save(train_args, e1,
                  [A EXCEPT !.scaler = p.sc, !.metrics = update_metrics(A.metrics, m)],
                  stages \o <<"compute_metrics", "update_metrics">>)
           EXCEPT !.pairs = [true |-> y_true, pred |-> y_pred, cut |-> SubSeq(p.out, Len(y_pred) + 1, Len(p.out))]]

\* train, after model.train(...) on the new artifact: t is what train did
api_trained(train_args, e1, t, df_test) ==
  LET A == [config |-> t.config, model |-> t.model, scaler |-> t.scaler, metrics |-> t.metrics]
  IN  IF t.err # "" THEN ApiResult(t.err, <<"clear_session", "train">>, e1, A, None, None)
      ELSE api_evaluate(train_args, e1, A, predict(e1, t.config, t.model, t.scaler, df_test),
                        df_test, <<"clear_session", "train", "predict">>)

\* the keyword arguments of "model.train(df_train=df_train, sequence_len=..., ...)"
ApiArgs(train_args) ==
  [h \in Hyperparameters |-> IF h \in ApiKeys THEN Val(train_args[h]) ELSE Absent]

\* api_v2.train(**kwargs) on frames df_train and df_test of the datapool
api_train(e, kwargs, df_train, df_test, fit_ok, duration) ==
  api_trained(schema_load(e, kwargs), clear_session(e),
              train(clear_session(e), default_config(clear_session(e)), None, None, EmptyDict,
                    ApiArgs(schema_load(e, kwargs)), df_train, fit_ok, duration),
              df_test)

\* the call entered the stage
Entered(r, stage) == \E i \in DOMAIN r.stages : r.stages[i] = stage

\* api_v2.train(**kwargs): the artifact is local to the call; what stays is the
\* archive, the Keras session and the message.  sync_ok: whether dutils.rclone_call
\* copies the archive or reports an error (it is called once save has returned)
ApiTrain(kwargs, model_name, df_train, df_test, fit_ok, duration, sync_ok) ==
  /\ last = Idle
  /\ LET r == api_train(env, kwargs, df_train, df_test, fit_ok, duration)
         path == SaveName(model_name)
     IN  /\ env' = r.env
         /\ fs' = IF r.zip = None THEN fs ELSE DictSet(fs, path, r.zip)
         /\ saved' = IF r.zip = None THEN saved
                     ELSE IF Entered(r, "rclone") THEN DictSet(saved, path, r.artifact)
                     ELSE DictRemove(saved, path)
         /\ last' = [op |-> "api_train", kwargs |-> kwargs, path |-> path, err |-> r.err,
                     stages |-> r.stages, artifact |-> r.artifact, message |-> r.message,
                     saved |-> Entered(r, "rclone"), copied |-> Entered(r, "rclone") /\ sync_ok,
                     test |-> df_test, pairs |-> r.pairs]
  /\ UNCHANGED <<config, model, scaler, sample_data, metrics>>

----------------------------------------------------------------------------
(* The pipeline: an artifact is configured through its setters, then trained on *)
(* the stored configuration, and used for prediction and evaluation             *)

PipelineKeys == {"sequence_len", "steps_ahead", "model_delta", "model_type"}

PipelineValues(h) == IF h = "model_type" THEN {"MLP"} ELSE Explicit(h)

\* train(df) with every hyperparameter None
NoOverride == [h \in Hyperparameters |-> None]

Configure ==
  /\ model = None /\ scaler = None
  /\ \E h \in PipelineKeys : \E v \in PipelineValues(h) : Set(h, v)

\* the frames evaluate is given: the empty one, the longest ones, the scenario's;
\* fit_generator is let fail on the longest frames and the scenario's
EvalFrames == {f \in Frames : f.len \in {0, MaxLen, 20}}

Pipeline ==
  \/ Configure
  \/ \E df \in Frames, fit_ok \in BOOLEAN : (fit_ok \/ df.len >= MaxLen) /\ Train(NoOverride, df, fit_ok, 1)
  \/ \E df \in Frames : Predict(df)
  \/ \E df \in EvalFrames : Eval(df)
  \/ Return

Next == Pipeline /\ UNCHANGED calls

Spec == Init /\ [][Next]_vars

----------------------------------------------------------------------------
(* Hyperparameter merging: train calls that pass one hyperparameter explicitly, *)
(* as None, or not at all, on an artifact that earlier calls have configured    *)

\* the keyword arguments of a call that names h only: h is a (an explicit value,
\* None, or Absent: the keyword is not written), the others are None
ArgsOne(h, a) == [k \in Hyperparameters |-> IF k = h THEN a ELSE None]

ArgChoices(h) == {None, Absent} \cup {Val(v) : v \in Explicit(h)}

\* the setters a caller uses between trainings
CfgSetters == {"interpolate", "blocks"}

InitCfg ==
  /\ env \in {e \in Envs : e.stacked_blocks = 2 /\ ~e.batch_normalization /\ e.dropout_rate = 0}
  /\ InitArtifact(env)
  /\ fs = NoFiles
  /\ saved = NoFiles
  /\ last = Idle
  /\ calls = 0

TrainCfg ==
  /\ calls < MaxCalls
  /\ calls' = calls + 1
  /\ \E h \in Hyperparameters : \E a \in ArgChoices(h) : Train(ArgsOne(h, a), Frame(20, 2), TRUE, 1)

SetCfg ==
  /\ calls < MaxCalls
  /\ calls' = calls + 1
  /\ \E h \in CfgSetters : \E v \in Explicit(h) : Set(h, v)

NextCfg ==
  \/ TrainCfg
  \/ SetCfg
  \/ Return /\ UNCHANGED calls

SpecCfg == InitCfg /\ [][NextCfg]_vars

----------------------------------------------------------------------------
(* The artifact container: artifacts are trained, saved and loaded back *)

\* train(df, model_type='MLP', sequence_len=1) with the other hyperparameters None
StoreArgs == [h \in Hyperparameters |->
               IF h = "model_type" THEN Val("MLP") ELSE IF h = "sequence_len" THEN Val(1) ELSE None]

\* a call is made while the budget of calls lasts
Call(A) == calls < MaxOps /\ calls' = calls + 1 /\ A

InitStore ==
  /\ env \in {e \in Envs : ~e.gpu /\ e.stacked_blocks = 2 /\ ~e.batch_normalization /\ e.dropout_rate = 0}
  /\ InitArtifact(env)
  /\ fs = NoFiles
  /\ saved = NoFiles
  /\ last = Idle
  /\ calls = 0

NextStore ==
  \/ Call(\E w \in 1..MaxWidth, d \in Durations : Train(StoreArgs, Frame(MaxLen, w), TRUE, d))
  \/ Call(\E w \in 1..MaxWidth : SetSampleData(Frame(MaxLen, w)))
  \/ Call(\E file \in Names : Save(file))
  \/ Call(\E file \in Names : Load(file))
  \/ Call(\E file \in Names : LoadModel(file))
  \/ Return /\ UNCHANGED calls

SpecStore == InitStore /\ [][NextStore]_vars

----------------------------------------------------------------------------
(* Archives from elsewhere: the artifact finds an archive on disk that another *)
(* installation wrote, with a sample-data section, possibly damaged on the way *)

ExtWidth == MaxWidth

\* the training time in the manifest of the archive (an older training run)
ExtTrainingTime == 5

ExtFrame == Frame(MaxLen, ExtWidth)

\* the manifest of the archive: written by a version that kept the training time
\* in config['model']
ExtConfig ==
  [model |-> DictSet(DictSet(DictSet(DictSet(default_config([gpu |-> FALSE, stacked_blocks |-> 2,
                                                              batch_normalization |-> FALSE,
                                                              dropout_rate |-> 0]).model,
                                              "model_type", "MLP"), "sequence_len", 1),
                             "multivariate", ExtWidth),
                     "training_time", ExtTrainingTime),
   scaler |-> [file |-> "scaler.pkl"],
   sample_data |-> [file |-> "sample_data.csv", sep |-> ";", skiprows |-> 0, skipfooter |-> 0,
                    engine |-> "python", usecols |-> <<"number_of_conn", "sum_orig_kbytes">>]]

ExtModel ==
  [KerasModel(1, ExtWidth, Topology([gpu |-> FALSE], ExtConfig.model), 0) EXCEPT !.fitted = TRUE]

ExtMetrics == DictSet(EmptyDict, "training_time", 3)

ExtArchive ==
  [m \in {"config.json", "model.h5", "scaler.pkl", "sample_data.csv", "metrics.json"} |->
     CASE m = "config.json" -> Json(json_dumps(ExtConfig))
       [] m = "model.h5" -> H5(ExtModel)
       [] m = "scaler.pkl" -> Pkl(FitScaler(transform(ExtConfig, Values(ExtFrame))))
       [] m = "sample_data.csv" -> Csv(ExtFrame)
       [] m = "metrics.json" -> Json(json_dumps_object(ExtMetrics))]

\* one member of the archive lost or corrupted, or none
Damaged(zip, m, how) ==
  CASE how = "missing" -> DictRemove(zip, m)
    [] how = "malformed" -> DictSet(zip, m, Garbage)
    [] how = "intact" -> zip

ExtPath == <<"m">> \o Zip

InitLoad ==
  /\ env \in {e \in Envs : ~e.gpu /\ e.stacked_blocks = 2 /\ ~e.batch_normalization /\ e.dropout_rate = 0}
  /\ InitArtifact(env)
  /\ \E m \in DOMAIN ExtArchive, how \in {"missing", "malformed", "intact"} :
       fs = DictSet(NoFiles, ExtPath, Damaged(ExtArchive, m, how))
  /\ saved = NoFiles
  /\ last = Idle
  /\ calls = 0

NextLoad ==
  \/ Call(\E d \in Durations : Train(StoreArgs, Frame(MaxLen, 1), TRUE, d))
  \/ Call(\E w \in 1..MaxWidth : SetSampleData(Frame(MaxLen, w)))
  \/ Call(\E file \in Names : Load(file))
  \/ Call(\E file \in Names : LoadModel(file))
  \/ Return /\ UNCHANGED calls

SpecLoad == InitLoad /\ [][NextLoad]_vars

----------------------------------------------------------------------------
(* The API: artifacts are trained through api_v2.train, which leaves an archive, *)
(* and obtained through api_v2.load_model; the artifact at hand is used directly *)

ApiName == <<"m">>

\* what callers of api_v2.train pass: the topology and the window, with either
\* transformation; the same with the two keys the message reads; the window only
ApiKwargs ==
  {[sequence_len |-> 1, model_type |-> "MLP", model_delta |-> d] : d \in BOOLEAN}
    \cup {[sequence_len |-> 1, model_type |-> "MLP", train_time_range_excluded |-> "",
           test_time_range_excluded |-> ""]}
    \cup {[sequence_len |-> 1]}

\* what callers of update_metrics pass
MetricMaps == {[mae |-> 7], [mae |-> 8, training_time |-> 9]}

InitApi ==
  /\ env \in {e \in Envs : ~e.gpu /\ e.stacked_blocks = 2 /\ ~e.batch_normalization /\ e.dropout_rate = 0}
  /\ InitArtifact(env)
  /\ fs = NoFiles
  /\ saved = NoFiles
  /\ last = Idle
  /\ calls = 0

NextApi ==
  \/ Call(\E kwargs \in ApiKwargs, w \in 1..MaxWidth, n \in {0, MaxLen}, sync_ok \in BOOLEAN :
            ApiTrain(kwargs, ApiName, Frame(MaxLen, w), Frame(n, w), TRUE, 1, sync_ok))
  \/ Call(LoadModel(ApiName))
  \/ Call(\E w \in 1..MaxWidth : Predict(Frame(MaxLen, w)))
  \/ Call(\E w \in 1..MaxWidth : Eval(Frame(MaxLen, w)))
  \/ Call(Save(ApiName))
  \/ Call(\E v \in Explicit("steps_ahead") : Set("steps_ahead", v))
  \/ Call(\E m \in MetricMaps : UpdateMetrics(m))
  \/ Return /\ UNCHANGED calls

SpecApi == InitApi /\ [][NextApi]_vars

----------------------------------------------------------------------------
(* Frames with missing data: train, predict and evaluate are given frames that *)
(* hold the string 'None' or gaps                                               *)

\* where the frames have a token and a gap
TokenAt == 2
GapAt == 3

RepairFrames ==
  {Holed(MaxLen, w, marks) :
     w \in 1..MaxWidth,
     marks \in {<<>>, [t \in {TokenAt} |-> "none"], [t \in {GapAt} |-> "nan"],
               [t \in {TokenAt, GapAt} |-> IF t = TokenAt THEN "none" ELSE "nan"]}}

RepairFlags == {"interpolate", "model_delta"}

InitRepair ==
  /\ env \in {e \in Envs : ~e.gpu /\ e.stacked_blocks = 2 /\ ~e.batch_normalization /\ e.dropout_rate = 0}
  /\ InitArtifact(env)
  /\ fs = NoFiles
  /\ saved = NoFiles
  /\ last = Idle
  /\ calls = 0

NextRepair ==
  \/ Call(\E h \in RepairFlags, v \in BOOLEAN : Set(h, v))
  \/ Call(\E df \in RepairFrames : Train(StoreArgs, df, TRUE, 1))
  \/ Call(\E df \in RepairFrames : Predict(df))
  \/ Call(\E df \in RepairFrames : Eval(df))
  \/ Return /\ UNCHANGED calls

SpecRepair == InitRepair /\ [][NextRepair]_vars

----------------------------------------------------------------------------
(* Vocabulary of the claims *)

\* the artifact holds a fitted predictor and a fitted scaler
Trained == model # None /\ model.fitted /\ scaler # None /\ scaler.fit

Ran(op) == last.op = op

\* the errors get_tsg raises
WindowingErrors ==
  {"ValueError: start_index+length > end_index", "ValueError: data and targets differ in length"}

\* the time step (row of the repaired input frame) an output row of predict is a
\* forecast of; 0 when it is a forecast of none.  Without delta the estimate of
\* the target slot at position p stands for row p.  With delta the slot at
\* position p holds row(p+1) - row(p), so base + estimate is a forecast of row p+1
\* exactly when the base is row p.
ForecastTime(row) ==
  IF row.k = "est" THEN row.pos
  ELSE IF row.k = "sum" /\ row.base.k = "obs" /\ row.add.k = "est" /\ row.base.t = row.add.pos
       THEN row.add.pos + 1
       ELSE 0

----------------------------------------------------------------------------
(* Claims *)

\* C1: for a matrix of L rows handed to get_tsg with sequence_len s and steps_ahead
\* k, exactly L - s - k + 1 windows are produced when that number is positive;
\* otherwise the call fails, before the predictor's fit / predict / evaluate is
\* invoked.  In train with delta on the matrix is the (L-1)-row differenced frame.
C1_WindowCount ==
  (last.op \in {"train", "predict", "eval"} /\ last.given # NotReached) =>
    LET n == last.given - config.model.sequence_len - config.model.steps_ahead + 1
    IN  /\ n > 0 => last.nwin = n /\ last.err \notin WindowingErrors
        /\ n <= 0 => last.err \in WindowingErrors /\ last.nwin = 0 /\ ~last.invoked
        /\ (Ran("train") /\ last.frame.len > 0) =>
             last.given = IF config.model.model_delta THEN last.frame.len - 1 ELSE last.frame.len

\* C1 witness: training on the 20-row frame with delta on, s = 6, k = 1 consumed 13 windows
C1_Witness ==
  /\ Ran("train") /\ last.frame = Frame(20, 2) /\ config.model.model_delta
  /\ config.model.sequence_len = 6 /\ config.model.steps_ahead = 1
  /\ last.given = 19 /\ last.nwin = 13 /\ last.invoked

\* C2 (as claimed): row i of the matrix predict returns is the forecast whose target
\* is row sequence_len + i + steps_ahead - 1 of the input frame, delta on or off
C2_RowAlignment ==
  (Ran("predict") /\ last.err = "" /\ Trained) =>
    \A i \in 1..Len(last.out) :
      ForecastTime(last.out[i]) = config.model.sequence_len + i + config.model.steps_ahead - 1

\* the documented scenario: 20 rows, 2 columns, sequence_len 6, steps_ahead 1, delta
\* on, on an artifact whose predictor and scaler were trained on 2 columns
Scenario ==
  /\ Ran("predict") /\ last.frame = Frame(20, 2) /\ Trained
  /\ config.model.sequence_len = 6 /\ config.model.steps_ahead = 1 /\ config.model.model_delta
  /\ config.model.multivariate = 2 /\ model.s = 6 /\ model.w = 2 /\ scaler.w = 2

\* C3 (as claimed): in the scenario predict returns exactly 1 output row
C3_ScenarioOneRow == Scenario => last.err = "" /\ Len(last.out) = 1

\* C3 (amended): in the scenario predict pads the 19-row differenced matrix with 1
\* missing row and returns 14 rows (20 - sequence_len); exactly one of them, the
\* last, is a forecast beyond row 20 (of time step 21)
C3_ScenarioRows ==
  Scenario =>
    /\ last.err = "" /\ last.given = 20 /\ last.nwin = 14 /\ Len(last.out) = 14
    /\ {i \in 1..Len(last.out) : ForecastTime(last.out[i]) > 20} = {14}
    /\ ForecastTime(last.out[14]) = 21

C3_Witness == Scenario /\ last.err = "" /\ Len(last.out) = 14

Trains == last = Idle /\ last'.op = "train"

\* the hyperparameters whose value the run of this step consumes: blocks only
\* where the topology has recurrent layers
ConsumedKeys == IF model'.topo.device = "any" THEN Hyperparameters \ {"blocks"} ELSE Hyperparameters

\* C5 (as claimed): a hyperparameter passed as None leaves the stored value in place
\* and the training uses it; passed a value, the training uses that value and it
\* becomes the stored value
C5_MergeNoneOrValue ==
  [][Trains =>
       \A h \in Hyperparameters :
         LET a == last'.args[h]
             isUsed(v) == (last'.used # None /\ h \in ConsumedKeys) => last'.used[h] = v
         IN  /\ a = None => config'.model[h] = config.model[h] /\ isUsed(config.model[h])
             /\ a.kind = "val" => config'.model[h] = a.v /\ isUsed(a.v)]_vars

\* C6 (as claimed): a hyperparameter absent from the call keeps its stored value,
\* and the training uses it
C6_AbsentKeepsStored ==
  [][Trains =>
       \A h \in Hyperparameters :
         last'.args[h] = Absent =>
           /\ config'.model[h] = config.model[h]
           /\ (last'.used # None /\ h # "blocks") => last'.used[h] = config.model[h]]_vars

\* the steps of train that work on the training frame
DataStages == {"replace_none", "interpolate", "transform", "normalize_fit", "get_tsg", "fit_generator"}

\* C7: when the merged model_type (with stacked_blocks and the CPU/GPU branch)
\* resolves to no topology, train raises, having performed no repair, transform,
\* scaler fit, windowing or predictor fit: scaler, predictor and metrics are as before
C7_FailFast ==
  [][(Trains /\ Topology(env, config'.model) = None) =>
       /\ last'.err = "Exception: model not specified"
       /\ {last'.stages[i] : i \in DOMAIN last'.stages} \cap DataStages = {}
       /\ ~last'.invoked /\ last'.given = NotReached
       /\ scaler' = scaler /\ model' = model /\ metrics' = metrics]_vars

\* C7 witness: a trained artifact, trained again with an unresolved model_type,
\* has raised and still holds the fitted predictor and scaler
C7_Witness ==
  /\ Ran("train") /\ last.err = "Exception: model not specified"
  /\ Topology(env, config.model) = None
  /\ Trained /\ "training_time" \in DOMAIN metrics

\* the state of the five members of an archive, as load looks for them
Members(zip) ==
  [config |-> MemberState(zip, "config.json", "json"),
   model |-> MemberState(zip, "model.h5", "h5"),
   scaler |-> MemberState(zip, "scaler.pkl", "pkl"),
   sample_data |-> MemberState(zip, "sample_data.csv", "csv"),
   metrics |-> MemberState(zip, "metrics.json", "json")]

\* C8: save(n) followed by load(n) into a fresh artifact succeeds and yields the
\* config and the metrics the saving artifact had at the time of save, for n given
\* with or without the extension, in either case; save and load normalize n to the
\* same path and normalizing twice changes nothing
C8_RoundTrip ==
  (Ran("load") /\ last.fresh /\ SaveName(last.file) \in DOMAIN saved) =>
    LET A == saved[SaveName(last.file)]
    IN  /\ last.err = ""
        /\ config = A.config /\ metrics = A.metrics
        /\ LoadName(last.file) = SaveName(last.file)
        /\ SaveName(SaveName(last.file)) = SaveName(last.file)
        /\ LoadName(LoadName(last.file)) = LoadName(last.file)

\* C8 witness: a trained artifact saved under a name with the upper-case extension
\* has been loaded into a fresh artifact under that name
C8_Witness ==
  /\ Ran("load") /\ last.fresh /\ last.err = "" /\ last.file = <<"m", ".", "Z", "I", "P">>
  /\ SaveName(last.file) \in DOMAIN saved /\ saved[SaveName(last.file)].model.fitted
  /\ "training_time" \in DOMAIN metrics /\ config.model.model_type = "MLP"

\* C9 (as claimed): whatever the artifact held before, loading an archive whose
\* metrics member is absent or malformed (and which is intact otherwise) succeeds
\* and leaves get_metrics() empty
C9_EmptyMetricsAfterLoad ==
  (Ran("load") /\ last.path \in DOMAIN fs
     /\ Members(fs[last.path]) \in [config : {"ok"}, model : {"ok"}, scaler : {"ok"},
                                    sample_data : {"ok"}, metrics : {"missing", "malformed"}]) =>
    last.err = "" /\ metrics = EmptyDict

\* C10 (as claimed): load fails whenever the manifest, the predictor member or the
\* scaler member is missing or unreadable; with these three readable, a missing
\* sample-data member or a missing metrics member does not make load fail
C10_LoadFailsIff ==
  (Ran("load") /\ last.path \in DOMAIN fs) =>
    LET st == Members(fs[last.path])
    IN  /\ (st.config # "ok" \/ st.model # "ok" \/ st.scaler # "ok") => last.err # ""
        /\ (st.config = "ok" /\ st.model = "ok" /\ st.scaler = "ok"
              /\ st.sample_data \in {"ok", "missing"} /\ st.metrics \in {"ok", "missing"}) =>
             last.err = ""

\* C11 (as claimed): after save, the archive holds a sample-data member exactly when
\* sample data was set on the artifact, and the member holds that frame
C11_SampleMemberIffSet ==
  Ran("save") =>
    LET zip == fs[last.path]
    IN  /\ sample_data # None => \E m \in DOMAIN zip : zip[m] = Csv(sample_data)
        /\ sample_data = None => \A m \in DOMAIN zip : zip[m].kind # "csv"

\* a call of load on the artifact at hand / of save has just been made
Loads == last = Idle /\ last'.op = "load" /\ ~last'.fresh
Saves == last = Idle /\ last'.op = "save"

\* C12 (as claimed): a load that fails leaves config, predictor, scaler, sample data
\* and metrics exactly as they were before the call
C12_LoadAtomic ==
  [][(Loads /\ last'.err # "") =>
       UNCHANGED <<config, model, scaler, sample_data, metrics>>]_vars

\* the archive is complete: manifest, predictor, scaler and metrics of the artifact
\* that saved it, and its sample data if set
Complete(zip, A, sd) ==
  /\ "config.json" \in DOMAIN zip /\ zip["config.json"] = Json(json_dumps(A.config))
  /\ A.config.model.file \in DOMAIN zip /\ zip[A.config.model.file] = H5(A.model)
  /\ A.config.scaler.file \in DOMAIN zip /\ zip[A.config.scaler.file] = Pkl(A.scaler)
  /\ "metrics.json" \in DOMAIN zip /\ zip["metrics.json"] = Json(json_dumps_object(A.metrics))
  /\ sd # None => \E m \in DOMAIN zip : zip[m] = Csv(sd)

\* C13 (as claimed): after a save call the file at the target path is a complete
\* archive of the artifact, or, if the call failed, the file system is as before
C13_SaveAtomic ==
  [][Saves =>
       IF last'.err = ""
       THEN Complete(fs'[last'.path], Snapshot, sample_data)
       ELSE fs' = fs]_vars

\* a call of predict / of eval has just been made
Predicts == last = Idle /\ last'.op = "predict"
Evals == last = Idle /\ last'.op = "eval"

\* C14: predict never fits the scaler: on an artifact that holds a predictor and a
\* scaler, the scaler after the call is the scaler before it, whether predict returns
\* or raises, and an unfit scaler makes it raise instead of being fit
C14_PredictKeepsScaler ==
  [][(Predicts /\ model # None /\ scaler # None) =>
       /\ scaler' = scaler
       /\ ~scaler.fit => last'.err = "NotFittedError"]_vars

\* C14 witness: predict has returned forecasts on a trained artifact whose scaler
\* is still the one fit on the differenced 20-row training frame
C14_Witness ==
  /\ Ran("predict") /\ Trained /\ last.err = "" /\ Len(last.out) > 0
  /\ last.frame.len < 20 /\ scaler = FitScaler(transform(config, Values(Frame(20, 2))))

\* C15 (as claimed): evaluate leaves the scaler of a trained artifact as it is
C15_EvalKeepsScaler ==
  [][(Evals /\ Trained) => scaler' = scaler]_vars

\* a call of update_metrics / of api_v2.train has just been made
Updates == last = Idle /\ last'.op = "update_metrics"
ApiTrains == last = Idle /\ last'.op = "api_train"

\* C16: update_metrics(m) merges: afterwards every key of m maps to m's value and
\* every other key that was present keeps its value; when api_v2.train has saved, the
\* artifact's metrics hold the training_time recorded by train next to the evaluation
\* metrics, and the archive's metrics member holds them all
C16_UpdateMerges ==
  [][/\ Updates =>
          /\ DOMAIN metrics' = DOMAIN metrics \cup DOMAIN last'.m
          /\ \A k \in DOMAIN metrics' :
               metrics'[k] = IF k \in DOMAIN last'.m THEN last'.m[k] ELSE metrics[k]
     /\ (ApiTrains /\ last'.saved) =>
          LET A == last'.artifact
              zip == fs'[last'.path]
          IN  /\ DOMAIN A.metrics = {"training_time", "mae", "rmse"}
              /\ A.metrics.training_time \in Durations
              /\ "metrics.json" \in DOMAIN zip
              /\ zip["metrics.json"].kind = "json"
              /\ json_loads_object(zip["metrics.json"].text) = A.metrics]_vars

\* C16 witness: api_v2.train has saved an artifact whose archive holds the training
\* time next to the evaluation metrics
C16_Witness ==
  /\ Ran("api_train") /\ last.saved
  /\ "training_time" \in DOMAIN json_loads_object(fs[last.path]["metrics.json"].text)
  /\ "mae" \in DOMAIN json_loads_object(fs[last.path]["metrics.json"].text)

\* C17 (as claimed): predict and evaluate return a result only on an artifact whose
\* predictor and scaler come from a train or a load that completed
C17_RequiresTrained ==
  [][((Predicts \/ Evals) /\ last'.err = "") => Trained]_vars

\* C18 (as claimed): a call of api_v2.train, which works on an artifact of its own,
\* leaves the config, the scaler, the metrics, the sample data and the predictor of
\* the artifact at hand as they are, and a predictor that was usable stays usable
C18_NoSharedState ==
  [][ApiTrains =>
       /\ UNCHANGED <<config, model, scaler, sample_data, metrics>>
       /\ (model # None /\ InCurrentGraph(env, model)) => InCurrentGraph(env', model')]_vars

\* C19 (as claimed): when save or load is back at the caller, no temporary file it
\* created is left and no descriptor it opened is left open
C19_NothingLeft ==
  (Ran("save") \/ Ran("load")) => last.left = Left(0, 0)

\* C20 (as claimed): api_v2.train attempts the remote copy only after the archive is
\* saved, and once the archive is saved it returns a message with status 'ok' that
\* carries the metrics of the trained artifact, whether the remote copy succeeds or not
C20_OkOnceSaved ==
  Ran("api_train") =>
    /\ \A i \in DOMAIN last.stages :
         last.stages[i] = "rclone" => \E j \in 1..(i - 1) : last.stages[j] = "save"
    /\ last.saved =>
         /\ last.err = ""
         /\ last.message # None
         /\ last.message.status = "ok"
         /\ last.message.evaluation = last.artifact.metrics

\* the windows get_tsg emitted in the operation that has just run: it was handed
\* last.given rows, which it takes by position
WindowsOfLast ==
  get_tsg(config, [w |-> 1, rows |-> [i \in 1..last.given |-> NaNRow]],
          config.model.steps_ahead, config.model.batch_size).windows

\* C21: every window get_tsg emits covers sequence_len consecutive rows a .. a+s-1 of
\* the matrix and is paired with row a+s-1+k, for every steps_ahead k >= 1; the
\* windows come in increasing order of a with stride 1
C21_TargetOffset ==
  (last.op \in {"train", "predict", "eval"} /\ last.given # NotReached) =>
    LET s == config.model.sequence_len
        k == config.model.steps_ahead
        ws == WindowsOfLast
    IN  /\ Len(ws) = last.nwin
        /\ \A j \in 1..Len(ws) :
             /\ Len(ws[j].x) = s
             /\ \A i \in 1..s : ws[j].x[i].pos = j + i - 1
             /\ ws[j].y.pos = j + s - 1 + k

\* C21 witness: predict has windowed a matrix with steps_ahead 2 and sequence_len 2
\* into at least two windows
C21_Witness ==
  /\ Ran("predict") /\ last.given # NotReached /\ last.nwin >= 2
  /\ config.model.steps_ahead = 2 /\ config.model.sequence_len = 2

\* position of a stage in a run (0: not entered)
At(stages, stage) ==
  IF \E i \in 1..Len(stages) : stages[i] = stage
  THEN CHOOSE i \in 1..Len(stages) : stages[i] = stage ELSE 0

\* the stages are stages of chain and come in the order of chain
InOrder(stages, chain) ==
  /\ \A i \in 1..Len(stages) : At(chain, stages[i]) > 0
  /\ \A i \in 1..(Len(stages) - 1) : At(chain, stages[i]) < At(chain, stages[i + 1])

\* C22: predict runs repair (the interpolation, when the flag is set), transform,
\* normalize (without fitting), padding,
\* windowing, the predictor's predict, inverse_normalize, inverse_transform in this
\* order, and all of them when it returns; train runs repair, transform, normalize
\* (with fitting), windowing, the predictor's fit in this order, and all of them when
\* it returns; inverse_transform never comes before inverse_normalize, normalize
\* never before transform
C22_StageOrder ==
  /\ Ran("predict") =>
       /\ InOrder(last.stages, <<"interpolate", "transform", "normalize", "pad", "get_tsg",
                                 "predict_generator", "inverse_normalize", "inverse_transform">>)
       /\ last.err = "" => Len(last.stages) = (IF config.model.interpolate THEN 8 ELSE 7)
       /\ At(last.stages, "inverse_transform") > 0 =>
            /\ At(last.stages, "inverse_normalize") > 0
            /\ At(last.stages, "inverse_normalize") < At(last.stages, "inverse_transform")
       /\ At(last.stages, "normalize") > 0 =>
            /\ At(last.stages, "transform") > 0
            /\ At(last.stages, "transform") < At(last.stages, "normalize")
  /\ Ran("train") =>
       /\ InOrder(last.stages, <<"define_model", "compile", "replace_none", "interpolate",
                                 "transform", "normalize_fit", "get_tsg", "fit_generator">>)
       /\ last.err = "" => Len(last.stages) = (IF config.model.interpolate THEN 8 ELSE 7)
       /\ At(last.stages, "normalize_fit") > 0 =>
            /\ At(last.stages, "transform") > 0
            /\ At(last.stages, "transform") < At(last.stages, "normalize_fit")

\* C22 witness: predict has run all its stages on a trained artifact with delta on
C22_Witness ==
  /\ Ran("predict") /\ Trained /\ last.err = "" /\ config.model.model_delta
  /\ Len(last.out) > 1 /\ last.stages[Len(last.stages)] = "inverse_transform"

\* C23 (as claimed): the rows api_v2.train hands to compute_metrics are aligned: as
\* many observed rows as forecasts, pair j holds the observed row and the forecast of
\* one time step, and the forecasts cut off are exactly those of a padding row
C23_PairsAligned ==
  (Ran("api_train") /\ last.pairs # None) =>
    LET y_true == last.pairs.true
        y_pred == last.pairs.pred
    IN  /\ Len(y_true) = Len(y_pred)
        /\ \A j \in 1..Len(y_pred) : ForecastTime(y_pred[j]) = y_true[j].t
        /\ \A j \in 1..Len(y_pred) : ForecastTime(y_pred[j]) <= last.test.len
        /\ \A j \in 1..Len(last.pairs.cut) : ForecastTime(last.pairs.cut[j]) > last.test.len

\* C24 (as claimed): after a train that returned, get_training_time() is the duration
\* that train recorded, also on an artifact loaded from an archive whose manifest
\* holds a training time
C24_TrainingTimeOfLastTrain ==
  (Ran("train") /\ last.err = "") => get_training_time(config, metrics) = Val(last.duration)

\* C25 (as claimed): the input chain is the same in train, predict and evaluate:
\* for the frame just given and the stored configuration, predict and evaluate
\* hand to normalize the very matrix that train hands to it
\* (tokens replaced by zero, gaps filled iff interpolate, differenced iff delta).
C25_SameInputChain ==
  (last.op \in {"train", "predict", "eval"}) =>
    /\ predict_input(config, last.frame).err = ""
    /\ eval_input(config, last.frame).err = ""
    /\ predict_input(config, last.frame).m = train_input(config, last.frame).m
    /\ eval_input(config, last.frame).m = train_input(config, last.frame).m

\* C26 (as claimed): after train, predict or evaluate returns, the frame object
\* of the caller has the contents and the shape it had before the call.
C26_FrameUntouched ==
  (last.op \in {"train", "predict", "eval"}) => last.after = last.frame

\* C27 (as claimed): a train call whose model_type is one of the configured
\* choices (an element of cfg.model_types given by the caller, or the default
\* cfg.model_type of a call that gives none) never raises 'model not specified',
\* with or without a GPU.
C27_ChoicesResolve ==
  (Ran("train") /\ Bound(env, last.args, "model_type") # None
                /\ Bound(env, last.args, "model_type").v \in Choices) =>
    last.err # "Exception: model not specified"

\* C28 (as claimed): a train call that fails (no topology, too little data for
\* the windowing, an error from fit) leaves the artifact's config, predictor,
\* scaler and metrics exactly as they were before the call.
C28_FailedTrainKeepsState ==
  [][(Trains /\ last'.err # "") => UNCHANGED <<config, model, scaler, metrics>>]_vars


============================================================================
